---------------------------- MODULE Spec2Model ----------------------------
(***************************************************************************)
(* A model of src/models/sincnet.py: the analytic filter bank              *)
(* (SincNetFilterConvLayer) with its memoized `filters` property, and the  *)
(* feature pipeline (SincNet) with its constructor and forward pass.       *)
(*                                                                         *)
(* Two specifications share the module:                                    *)
(*   Spec     - filter banks at the level of values: construction, writes  *)
(*              to the trainable parameters, reads of `filters`.           *)
(*   SpecNet  - the pipeline at the level of tensor shapes: construction   *)
(*              and forward calls.                                         *)
(*                                                                         *)
(* Floating point values are records [cls, v]: cls is "num", "nan", "inf"  *)
(* or "ninf"; v is an integer.  Frequencies carry v in Hz; kernel          *)
(* coefficients carry v in thousandths (fixed point, scale Milli).         *)
(***************************************************************************)
EXTENDS Integers, Sequences, FiniteSets, TLC

\* ------------------------------------------------------------------ bounds
MaxOutChannels == 3
MaxUpdates == 1
MaxSincFilters == 2
MaxConvFilterLength == 2

\* ------------------------------------------------------- program constants
SupportedSampleRate == 16000
DefaultNumSincFilters == 80
DefaultSincFilterLength == 251
DefaultNumConvFilters == 60
DefaultConvFilterLength == 5
DefaultPoolKernelSize == 3
DefaultPoolStride == 3
DefaultSincFilterStride == 10
DefaultMinLowHz == 50
DefaultMinBandHz == 50
MelLowHz == 30
MelBreakHz == 700
LruMaxSize == 1

\* --------------------------------------------------------- floating point
Milli == 10 ^ 3
Centi == 10 ^ 2

Num(x) == [cls |-> "num", v |-> x]
NaN == [cls |-> "nan", v |-> 0]
PInf == [cls |-> "inf", v |-> 0]
NInf == [cls |-> "ninf", v |-> 0]

IsNum(a) == a.cls = "num"
IsFinite(a) == a.cls = "num"

\* IEEE comparison a == b: false as soon as one side is NaN
FEq(a, b) == a.cls # "nan" /\ b.cls # "nan" /\ a = b

\* IEEE comparison a >= b on the values the model produces
FGe(a, b) ==
    /\ a.cls # "nan" /\ b.cls # "nan"
    /\ \/ a.cls = "inf"
       \/ b.cls = "ninf"
       \/ (a.cls = "num" /\ b.cls = "num" /\ a.v >= b.v)

FAbs(a) ==
    IF a.cls = "num" THEN Num(IF a.v < 0 THEN -a.v ELSE a.v)
    ELSE IF a.cls = "nan" THEN NaN ELSE PInf

\* a + b and a - b on finite values and NaN (no operand of the model is
\* infinite where these are applied)
FAdd(a, b) == IF IsNum(a) /\ IsNum(b) THEN Num(a.v + b.v) ELSE NaN
FSub(a, b) == IF IsNum(a) /\ IsNum(b) THEN Num(a.v - b.v) ELSE NaN

\* torch.clamp(a, lo, hi) = min(max(a, lo), hi), NaN kept
FClamp(a, lo, hi) ==
    IF ~IsNum(a) THEN a
    ELSE Num(IF (IF a.v < lo THEN lo ELSE a.v) > hi THEN hi
             ELSE (IF a.v < lo THEN lo ELSE a.v))

\* integer quotient a / b for b # 0 of either sign
Quot(a, b) == IF b > 0 THEN a \div b ELSE (-a) \div (-b)

\* a / d for a coefficient a (scale Milli) and a divisor d in Hz:
\* 0/0 is NaN, x/0 is +-Inf
FDivHz(a, d) ==
    IF ~IsNum(a) \/ ~IsNum(d) THEN NaN
    ELSE IF d.v = 0
         THEN (IF a.v = 0 THEN NaN ELSE IF a.v > 0 THEN PInf ELSE NInf)
         ELSE Num(Quot(a.v, d.v))

\* ------------------------------------------------------------ sin and cos
\* sin over one turn cut in 32 equal steps, scale Milli; the quarter
\* wave holds round(1000 * sin(2 pi j / 32)) for j = 0..8
QuarterWave == <<0, 195, 383, 556, 707, 831, 924, 981, 1000>>

SinStep(idx) ==
    IF idx <= 8 THEN QuarterWave[idx + 1]
    ELSE IF idx <= 16 THEN QuarterWave[16 - idx + 1]
    ELSE IF idx <= 24 THEN -QuarterWave[idx - 16 + 1]
    ELSE -QuarterWave[32 - idx + 1]

\* sin(2 pi num / den), den > 0, the phase rounded down to a step
SinTurns(num, den) == SinStep(((num % den) * 32) \div den)
CosTurns(num, den) == SinStep((((num % den) * 32) \div den + 8) % 32)

\* torch.sin(f * n) for n = 2 pi k / sample_rate
FSin(f, k, sample_rate) ==
    IF IsNum(f) THEN Num(SinTurns(f.v * k, sample_rate)) ELSE NaN

\* ---------------------------------------------------------------- numpy
\* np.hamming(M)[i - 1], scale Centi: 0.54 - 0.46 cos(2 pi (i-1) / (M-1)),
\* and ones(1) for M = 1
Hamming(M, i) ==
    IF M = 1 THEN 100
    ELSE 54 - Quot(46 * CosTurns(i - 1, M - 1), Milli)

\* the m-th root of x rounded down, searched by bisection in lo..hi
RECURSIVE Root(_, _, _, _)
Root(m, x, lo, hi) ==
    IF lo >= hi THEN lo
    ELSE IF ((lo + hi + 1) \div 2) ^ m <= x
         THEN Root(m, x, (lo + hi + 1) \div 2, hi)
         ELSE Root(m, x, lo, (lo + hi + 1) \div 2 - 1)

\* hz[i] of lines 46-51 for i in 0..m, m = out_channels // 2:
\*   mel = linspace(mel(30), mel(high_hz), m + 1); hz = 700 (10^(mel/2595) - 1)
\* With mel(f) = 2595 log10(1 + f/700) the points are the geometric
\* interpolation hz[i] = (730^(m-i) (700 + high_hz)^i)^(1/m) - 700, here
\* rounded down to whole Hz.  log10 of a negative number is NaN and of zero
\* -inf: then linspace yields [NaN, ...] resp. [NaN, -inf, ...].
MelHz(i, m, high_hz) ==
    LET a == MelBreakHz + MelLowHz
        b == MelBreakHz + high_hz
    IN  IF b < 0 THEN NaN
        ELSE IF b = 0 THEN (IF i = 0 THEN NaN ELSE Num(-MelBreakHz))
        ELSE IF i = 0 THEN Num(MelLowHz)
        ELSE IF i = m THEN Num(high_hz)
        ELSE Num(Root(m, (a ^ (m - i)) * (b ^ i), 0, IF a > b THEN a ELSE b)
                 - MelBreakHz)


\* ------------------------------------------------------------------ state
VARIABLES
    layers,     \* instance id -> the SincNetFilterConvLayer bound to it
    attempts,   \* instance id -> the last constructor call made for it
    cache,      \* the lru_cache of `filters`: one cache for the class
    lastCall,   \* the last read of the `filters` property
    updates,    \* number of parameter writes so far
    net,        \* the SincNet model
    netAttempt, \* the last SincNet constructor call
    lastFwd     \* the last SincNet.forward call

vars == <<layers, attempts, cache, lastCall, updates, net, netAttempt, lastFwd>>

Ids == {1, 2}

\* --------------------------------------------- SincNetFilterConvLayer
NoLayer == [alive |-> FALSE]
NoAttempt == [made |-> FALSE]

\* self._kernel_size: even sizes are forced to the next odd size
OddKernelSize(kernel_size) ==
    IF kernel_size % 2 = 0 THEN kernel_size + 1 ELSE kernel_size

\* number of points of the Mel grid; the parameters take all but the last
MelPoints(out_channels) == out_channels \div 2 + 1

\* the guard on in_channels left out
InChannelsUnchecked(in_channels) == "none"

\* __init__, the guard on in_channels: the exception raised, or "none"
InChannelsCheck(in_channels) ==
    IF in_channels # 1 THEN "ValueError" ELSE "none"

\* __init__: cfg holds the arguments.  Returns the exception raised, or the
\* object with its parameters (_low_hz, _band_hz) and buffers (_window, _n;
\* _n[j] is kept as the sample index k of n = 2 pi k / sample_rate).
SincNetFilterConvLayerInit(cfg) ==
    IF InChannelsCheck(cfg.in_channels) # "none"
    THEN [raised |-> InChannelsCheck(cfg.in_channels), obj |-> NoLayer]
    ELSE
      LET ks == OddKernelSize(cfg.kernel_size)
          m == MelPoints(cfg.out_channels) - 1
          high_hz == cfg.sample_rate \div 2 - (cfg.min_low_hz + cfg.min_band_hz)
          hz == [i \in 1..(m + 1) |-> MelHz(i - 1, m, high_hz)]
      IN  [raised |-> "none",
           obj |-> [alive |-> TRUE,
                    out_channels |-> cfg.out_channels,
                    kernel_size |-> ks,
                    stride |-> cfg.stride,
                    padding |-> cfg.padding,
                    dilation |-> cfg.dilation,
                    sample_rate |-> cfg.sample_rate,
                    min_low_hz |-> cfg.min_low_hz,
                    min_band_hz |-> cfg.min_band_hz,
                    low_hz |-> [i \in 1..m |-> hz[i]],
                    band_hz |-> [i \in 1..m |-> FSub(hz[i + 1], hz[i])],
                    window |-> [j \in 1..(ks \div 2) |-> Hamming(ks, j)],
                    n |-> [j \in 1..(ks \div 2) |-> j - 1 - ks \div 2]]]

\* low = self._min_low_hz + torch.abs(self._low_hz)
LowOf(min_low_hz, low_param) == FAdd(Num(min_low_hz), FAbs(low_param))

\* the argument of the clamp: low + self._min_band_hz + torch.abs(self._band_hz)
PreClampHigh(low, min_band_hz, band_param) ==
    FAdd(FAdd(low, Num(min_band_hz)), FAbs(band_param))

\* the upper cutoff with the clamp left out
HighOfUnclamped(low, min_band_hz, band_param, min_low_hz, sample_rate) ==
    PreClampHigh(low, min_band_hz, band_param)

\* high = torch.clamp(..., self._min_low_hz, self._sample_rate/2)
HighOf(low, min_band_hz, band_param, min_low_hz, sample_rate) ==
    FClamp(PreClampHigh(low, min_band_hz, band_param),
           min_low_hz, sample_rate \div 2)

\* one tap of band_pass_left, scale Milli:
\*   ((sin(high n) - sin(low n)) / (n / 2)) * window, n = 2 pi k / sample_rate,
\*   pi taken as 22/7
BandPassLeftTap(high, low, k, win, sample_rate) ==
    LET d == FSub(FSin(high, k, sample_rate), FSin(low, k, sample_rate))
    IN  IF IsNum(d)
        THEN Num(Quot(Quot(d.v * 7 * sample_rate, 22 * k) * win, Centi))
        ELSE NaN

\* band_pass_center = 2 * band, scale Milli
BandPassCenter(band) == IF IsNum(band) THEN Num(2 * band.v * Milli) ELSE NaN

\* 2 * band, in Hz: the divisor of the normalisation
TwiceBand(band) == IF IsNum(band) THEN Num(2 * band.v) ELSE NaN

\* torch.flip(x, dims=[1]) on one row
Flip(row) == [j \in 1..Len(row) |-> row[Len(row) + 1 - j]]

\* torch.cat([left, center, right], dim=1) on one row
BandPassRow(left, center) == left \o <<center>> \o Flip(left)

RECURSIVE Flatten(_)
Flatten(rows) ==
    IF rows = <<>> THEN <<>> ELSE Head(rows) \o Flatten(Tail(rows))

\* whether x.view(out_channels, 1, kernel_size) accepts numel elements
ViewFits(numel, out_channels, kernel_size) ==
    numel = out_channels * 1 * kernel_size

\* x.view(out_channels, 1, kernel_size): raises unless the element counts
\* agree; else the same elements, kernel_size per kernel, one channel each
View(rows, out_channels, kernel_size) ==
    LET flat == Flatten(rows)
    IN  IF ~ViewFits(Len(flat), out_channels, kernel_size)
        THEN [raised |-> "RuntimeError", value |-> <<>>]
        ELSE [raised |-> "none",
              value |-> [c \in 1..out_channels |->
                          << [t \in 1..kernel_size |->
                                flat[(c - 1) * kernel_size + t]] >>]]

\* the left half of one filter's kernel: one tap per element of _n
BandPassLeft(high, low, L) ==
    [j \in 1..Len(L.n) |->
        BandPassLeftTap(high, low, L.n[j], L.window[j], L.sample_rate)]

\* band_pass / (2 * band[:, None]) on one row
Normalise(row, twice_band) ==
    [t \in 1..Len(row) |-> FDivHz(row[t], twice_band)]

\* one filter of the bank, from its cutoffs: band, and its kernel row
FilterFromCutoffs(low, high, band, L) ==
    [low |-> low, high |-> high, band |-> band,
     row |-> Normalise(BandPassRow(BandPassLeft(high, low, L),
                                   BandPassCenter(band)),
                       TwiceBand(band))]

FilterFromLow(low, high, L) == FilterFromCutoffs(low, high, FSub(high, low), L)

\* filter i of the bank, from its two raw parameters
FilterOf(L, i) ==
    FilterFromLow(LowOf(L.min_low_hz, L.low_hz[i]),
                  HighOf(LowOf(L.min_low_hz, L.low_hz[i]), L.min_band_hz,
                         L.band_hz[i], L.min_low_hz, L.sample_rate),
                  L)

\* what the body of `filters` gives from the per-filter results fs
FiltersResult(fs, view) ==
    [raised |-> view.raised, value |-> view.value,
     low |-> [i \in 1..Len(fs) |-> fs[i].low],
     high |-> [i \in 1..Len(fs) |-> fs[i].high],
     band |-> [i \in 1..Len(fs) |-> fs[i].band],
     band_pass |-> [i \in 1..Len(fs) |-> fs[i].row]]

FiltersView(fs, L) ==
    FiltersResult(fs, View([i \in 1..Len(fs) |-> fs[i].row],
                           L.out_channels, L.kernel_size))

\* the body of the `filters` property (what lru_cache wraps): low, high and
\* band of every filter, the rows of band_pass, and the final view
filters(L) == FiltersView([i \in 1..Len(L.low_hz) |-> FilterOf(L, i)], L)

\* the cache after a miss that computed r for instance id
CacheStore(c, id, r) ==
    IF r.raised # "none" THEN c
    ELSE IF Len(c) + 1 > LruMaxSize
    THEN SubSeq(<<[key |-> id, value |-> r.value]>> \o c, 1, LruMaxSize)
    ELSE <<[key |-> id, value |-> r.value]>> \o c

CacheMiss(c, id, r) ==
    [cache |-> CacheStore(c, id, r), hit |-> FALSE,
     raised |-> r.raised, value |-> r.value,
     low |-> r.low, high |-> r.high, band |-> r.band,
     band_pass |-> r.band_pass]

CacheHit(c, id, e) ==
    [cache |-> <<e>> \o SelectSeq(c, LAMBDA x : x.key # id), hit |-> TRUE,
     raised |-> "none", value |-> e.value,
     low |-> <<>>, high |-> <<>>, band |-> <<>>, band_pass |-> <<>>]

\* @lru_cache(maxsize=1) around `filters`: the cache belongs to the function,
\* so all instances share it; the key is the instance; a call that raises
\* stores nothing; a stored value is returned without running the body
CachedFilters(c, id, L) ==
    IF \E e \in 1..Len(c) : c[e].key = id
    THEN CacheHit(c, id, c[CHOOSE e \in 1..Len(c) : c[e].key = id])
    ELSE CacheMiss(c, id, filters(L))

\* ------------------------------------------------ SincNet, by tensor shape
\* A tensor is its shape <<batch, channels, length>>.
NoNet == [alive |-> FALSE]
NoFwd == [made |-> FALSE]

\* what SincNetFilterConvLayer.__init__ builds, by shape: _low_hz and
\* _band_hz are (rows, 1), _window and _n hold kernel_size // 2 elements
SincLayerShapeInit(cfg) ==
    IF InChannelsCheck(cfg.in_channels) # "none"
    THEN [raised |-> InChannelsCheck(cfg.in_channels), obj |-> NoLayer]
    ELSE [raised |-> "none",
          obj |-> [alive |-> TRUE,
                   out_channels |-> cfg.out_channels,
                   kernel_size |-> OddKernelSize(cfg.kernel_size),
                   stride |-> cfg.stride,
                   padding |-> cfg.padding,
                   dilation |-> cfg.dilation,
                   rows |-> MelPoints(cfg.out_channels) - 1,
                   half |-> OddKernelSize(cfg.kernel_size) \div 2]]

\* the `filters` property by shape: band_pass is (rows, half + 1 + half),
\* then the view.  A memoized value has the shape of a computed one.
FiltersShape(L) ==
    IF ViewFits(L.rows * (L.half + 1 + L.half), L.out_channels, L.kernel_size)
    THEN [raised |-> "none", shape |-> <<L.out_channels, 1, L.kernel_size>>]
    ELSE [raised |-> "RuntimeError", shape |-> <<>>]

\* F.conv1d / nn.Conv1d output length, and whether the input is long enough
Conv1dLen(len, kernel, stride, padding, dilation) ==
    (len + 2 * padding - dilation * (kernel - 1) - 1) \div stride + 1

Conv1dFits(len, kernel, padding, dilation) ==
    len + 2 * padding >= dilation * (kernel - 1) + 1

\* F.conv1d(x, weight, stride, padding, dilation) for weight of shape w
Conv1d(x, w, stride, padding, dilation) ==
    IF x[2] # w[2] \/ ~Conv1dFits(x[3], w[3], padding, dilation)
    THEN [raised |-> "RuntimeError", shape |-> <<>>]
    ELSE [raised |-> "none",
          shape |-> <<x[1], w[1],
                      Conv1dLen(x[3], w[3], stride, padding, dilation)>>]

\* SincNetFilterConvLayer.forward: F.conv1d(waveforms, self.filters, ...).abs_()
SincLayerForward(L, x) ==
    LET f == FiltersShape(L)
    IN  IF f.raised # "none" THEN [raised |-> f.raised, shape |-> <<>>]
        ELSE Conv1d(x, f.shape, L.stride, L.padding, L.dilation)

\* nn.MaxPool1d(kernel, stride=stride)
MaxPool1d(x, kernel, stride) ==
    IF x[3] < kernel
    THEN [raised |-> "RuntimeError", shape |-> <<>>]
    ELSE [raised |-> "none",
          shape |-> <<x[1], x[2], (x[3] - kernel) \div stride + 1>>]

\* SincNet.__init__
SincNetInit(cfg) ==
    IF cfg.sample_rate # SupportedSampleRate
    THEN [raised |-> "NotImplementedError", obj |-> NoNet]
    ELSE
      LET sinc == SincLayerShapeInit(
                    [out_channels |-> cfg.num_sinc_filters,
                     kernel_size |-> cfg.sinc_filter_length,
                     sample_rate |-> cfg.sample_rate,
                     stride |-> cfg.sinc_filter_stride,
                     padding |-> cfg.sinc_filter_padding,
                     dilation |-> cfg.sinc_filter_dilation,
                     min_low_hz |-> cfg.min_low_hz,
                     min_band_hz |-> cfg.min_band_hz,
                     in_channels |-> cfg.sinc_filter_in_channels])
          conv(cin) == [weight |-> <<cfg.num_conv_filters, cin,
                                     cfg.conv_filter_length>>]
          pool == [kernel |-> cfg.pool_kernel_size, stride |-> cfg.pool_stride]
      IN  IF sinc.raised # "none"
          THEN [raised |-> sinc.raised, obj |-> NoNet]
          ELSE [raised |-> "none",
                obj |-> [alive |-> TRUE,
                         wav_norm1d |-> cfg.num_wavform_channels,
                         conv1d |-> <<sinc.obj, conv(cfg.num_sinc_filters),
                                      conv(cfg.num_conv_filters)>>,
                         pool1d |-> <<pool, pool, pool>>,
                         norm1d |-> <<cfg.num_sinc_filters,
                                      cfg.num_conv_filters,
                                      cfg.num_conv_filters>>]]

\* the steps of one stage, in the order of the loop body
StageSteps(i) ==
    << [op |-> "conv1d", stage |-> i], [op |-> "pool1d", stage |-> i],
       [op |-> "norm1d", stage |-> i], [op |-> "leaky_relu", stage |-> i] >>

\* the loop of SincNet.forward from stage i on.  st = [raised, trace, shape,
\* lens]: trace lists the steps applied, lens the lengths each stage made.
RECURSIVE ForwardStages(_, _, _)
ForwardStages(M, i, st) ==
    IF i > 3 \/ st.raised # "none" THEN st
    ELSE
      LET c == IF i = 1 THEN SincLayerForward(M.conv1d[1], st.shape)
               ELSE Conv1d(st.shape, M.conv1d[i].weight, 1, 0, 1)
          p == MaxPool1d(c.shape, M.pool1d[i].kernel, M.pool1d[i].stride)
      IN  IF c.raised # "none"
          THEN [st EXCEPT !.raised = c.raised]
          ELSE IF p.raised # "none"
          THEN [st EXCEPT !.raised = p.raised,
                          !.trace = @ \o SubSeq(StageSteps(i), 1, 1)]
          ELSE ForwardStages(M, i + 1,
                 [raised |-> "none",
                  trace |-> st.trace \o StageSteps(i),
                  shape |-> p.shape,
                  lens |-> Append(st.lens, [in |-> st.shape[3],
                                            conv |-> c.shape[3],
                                            pool |-> p.shape[3]])])

\* SincNet.forward(waveforms)
forward(M, waveforms) ==
    ForwardStages(M, 1,
        [raised |-> "none",
         trace |-> << [op |-> "wav_norm1d", stage |-> 0] >>,
         shape |-> waveforms,
         lens |-> <<>>])


\* ---------------------------------------------------------------- inputs
\* arguments tried for SincNetFilterConvLayer(...)
MinHzPairs == { <<DefaultMinLowHz, DefaultMinBandHz>>, <<8000, 1000>> }

KernelSizes == {1, 2, 5}

LayerConfig(oc, ks, mh, ic) ==
    [out_channels |-> oc, kernel_size |-> ks,
     sample_rate |-> SupportedSampleRate,
     stride |-> 1, padding |-> 0, dilation |-> 1,
     min_low_hz |-> mh[1], min_band_hz |-> mh[2], in_channels |-> ic]

\* instance 1 is built from any of the arguments; instance 2 is the other
\* filter bank of an interleaving and is built with the default cutoffs
LayerConfigs(id) ==
    IF id = 1
    THEN { LayerConfig(oc, ks, mh, ic) :
             oc \in 0..MaxOutChannels, ks \in KernelSizes,
             mh \in MinHzPairs, ic \in {1, 2} }
    ELSE { LayerConfig(oc, 5, <<DefaultMinLowHz, DefaultMinBandHz>>, 1) :
             oc \in 0..MaxOutChannels }

\* raw values written to a trainable parameter
ParamValues == {-7950, -3000, 0, 3000}

\* ----------------------------------------------------- actions, filter bank
Init ==
    /\ layers = [i \in Ids |-> NoLayer]
    /\ attempts = [i \in Ids |-> NoAttempt]
    /\ cache = <<>>
    /\ lastCall = [made |-> FALSE]
    /\ updates = 0
    /\ net = NoNet
    /\ netAttempt = NoAttempt
    /\ lastFwd = NoFwd

\* x_id = SincNetFilterConvLayer(**cfg)
NewLayer(id, cfg) ==
    /\ ~attempts[id].made
    /\ LET r == SincNetFilterConvLayerInit(cfg)
       IN  /\ attempts' = [attempts EXCEPT
                 ![id] = [made |-> TRUE, cfg |-> cfg, raised |-> r.raised]]
           /\ layers' = [layers EXCEPT ![id] = r.obj]
    /\ UNCHANGED <<cache, lastCall, updates, net, netAttempt, lastFwd>>

\* the training collaborator writes x_id._low_hz[idx]
SetLowHz(id, idx, v) ==
    /\ layers[id].alive
    /\ updates < MaxUpdates
    /\ idx \in 1..Len(layers[id].low_hz)
    /\ layers' = [layers EXCEPT ![id].low_hz[idx] = Num(v)]
    /\ updates' = updates + 1
    /\ UNCHANGED <<attempts, cache, lastCall, net, netAttempt, lastFwd>>

\* the training collaborator writes x_id._band_hz[idx]
SetBandHz(id, idx, v) ==
    /\ layers[id].alive
    /\ updates < MaxUpdates
    /\ idx \in 1..Len(layers[id].band_hz)
    /\ layers' = [layers EXCEPT ![id].band_hz[idx] = Num(v)]
    /\ updates' = updates + 1
    /\ UNCHANGED <<attempts, cache, lastCall, net, netAttempt, lastFwd>>

\* the effect of a read of x_id.filters that went as r says
Returned(id, r) ==
    /\ cache' = r.cache
    /\ lastCall' = [made |-> TRUE, inst |-> id,
                    low_hz |-> layers[id].low_hz,
                    band_hz |-> layers[id].band_hz,
                    hit |-> r.hit, raised |-> r.raised, value |-> r.value,
                    low |-> r.low, high |-> r.high, band |-> r.band,
                    band_pass |-> r.band_pass]

\* a read of x_id.filters; lastCall keeps the parameters read, the
\* intermediate tensors of the body (when it ran) and what the read gave
ReadFilters(id) ==
    /\ layers[id].alive
    /\ Returned(id, CachedFilters(cache, id, layers[id]))
    /\ UNCHANGED <<layers, attempts, updates, net, netAttempt, lastFwd>>

Next ==
    \/ \E id \in Ids : \E cfg \in LayerConfigs(id) : NewLayer(id, cfg)
    \/ \E id \in Ids, idx \in 1..MaxOutChannels, v \in ParamValues :
          SetLowHz(id, idx, v)
    \/ \E id \in Ids, idx \in 1..MaxOutChannels, v \in ParamValues :
          SetBandHz(id, idx, v)
    \/ \E id \in Ids : ReadFilters(id)

Spec == Init /\ [][Next]_vars


\* ------------------------------------------------------ actions, pipeline
\* arguments tried for SincNet(...); the defaults are among them
SincNetConfigs ==
    { [num_sinc_filters |-> nf, sinc_filter_length |-> fl,
       num_conv_filters |-> DefaultNumConvFilters,
       conv_filter_length |-> cl,
       pool_kernel_size |-> pk, pool_stride |-> ps,
       sample_rate |-> sr, sinc_filter_stride |-> st,
       sinc_filter_padding |-> pad, sinc_filter_dilation |-> 1,
       min_low_hz |-> DefaultMinLowHz, min_band_hz |-> DefaultMinBandHz,
       sinc_filter_in_channels |-> ic, num_wavform_channels |-> 1] :
      nf \in (1..MaxSincFilters) \cup {DefaultNumSincFilters},
      fl \in {4, DefaultSincFilterLength},
      cl \in (1..MaxConvFilterLength) \cup {DefaultConvFilterLength},
      pk \in {1, DefaultPoolKernelSize},
      ps \in {1, DefaultPoolStride},
      sr \in {8000, SupportedSampleRate},
      st \in {1, DefaultSincFilterStride},
      pad \in {0, 1},
      ic \in {1, 2} }

DefaultConfig ==
    [num_sinc_filters |-> DefaultNumSincFilters,
     sinc_filter_length |-> DefaultSincFilterLength,
     num_conv_filters |-> DefaultNumConvFilters,
     conv_filter_length |-> DefaultConvFilterLength,
     pool_kernel_size |-> DefaultPoolKernelSize,
     pool_stride |-> DefaultPoolStride,
     sample_rate |-> SupportedSampleRate,
     sinc_filter_stride |-> DefaultSincFilterStride,
     sinc_filter_padding |-> 0, sinc_filter_dilation |-> 1,
     min_low_hz |-> DefaultMinLowHz, min_band_hz |-> DefaultMinBandHz,
     sinc_filter_in_channels |-> 1, num_wavform_channels |-> 1]

\* waveforms passed to forward: (1, 1, samples)
InputSamples == {16000, 4000, 300}

\* model = SincNet(**cfg)
NewSincNet(cfg) ==
    /\ ~netAttempt.made
    /\ LET r == SincNetInit(cfg)
       IN  /\ netAttempt' = [made |-> TRUE, cfg |-> cfg, raised |-> r.raised]
           /\ net' = r.obj
    /\ UNCHANGED <<layers, attempts, cache, lastCall, updates, lastFwd>>

\* outputs = model(waveforms)
CallForward(samples) ==
    /\ net.alive
    /\ LET r == forward(net, <<1, 1, samples>>)
       IN  lastFwd' = [made |-> TRUE, waveforms |-> <<1, 1, samples>>,
                       raised |-> r.raised, trace |-> r.trace,
                       shape |-> r.shape, lens |-> r.lens]
    /\ UNCHANGED <<layers, attempts, cache, lastCall, updates, net, netAttempt>>

NextNet ==
    \/ \E cfg \in SincNetConfigs : NewSincNet(cfg)
    \/ \E samples \in InputSamples : CallForward(samples)

SpecNet == Init /\ [][NextNet]_vars

\* construction only: a layer built directly, and the pipeline
NextCtor ==
    \/ \E cfg \in LayerConfigs(1) : NewLayer(1, cfg)
    \/ \E cfg \in SincNetConfigs : NewSincNet(cfg)

SpecCtor == Init /\ [][NextCtor]_vars

\* ----------------------------------------------------------------- claims
\* the layer the last read of `filters` was made on, with the parameters it
\* had at the time of the read
ReadLayer ==
    [layers[lastCall.inst] EXCEPT !.low_hz = lastCall.low_hz,
                                  !.band_hz = lastCall.band_hz]

ReadConfig == attempts[lastCall.inst].cfg

Abs(x) == IF x < 0 THEN -x ELSE x

\* C1: what a read of `filters` returns is the kernel bank derived from the
\* instance's parameters at the time of the read: one kernel per filter,
\* one channel each, holding that filter's normalised band-pass row.
C1_ReadGivesCurrentKernels ==
    lastCall.made =>
        lastCall.value =
            [i \in 1..Len(lastCall.low_hz) |-> << FilterOf(ReadLayer, i).row >>]

\* C2: for out_channels >= 1 and kernel_size >= 1 a read of `filters`
\* succeeds and returns out_channels kernels, each of one channel and of
\* length K, K the kernel size made odd.
C2_BankHasOutChannelsKernels ==
    (lastCall.made /\ ReadConfig.out_channels >= 1 /\ ReadConfig.kernel_size >= 1) =>
        /\ lastCall.raised = "none"
        /\ Len(lastCall.value) = ReadConfig.out_channels
        /\ \A c \in 1..Len(lastCall.value) :
              /\ Len(lastCall.value[c]) = 1
              /\ Len(lastCall.value[c][1]) =
                    (IF ReadConfig.kernel_size % 2 = 1
                     THEN ReadConfig.kernel_size
                     ELSE ReadConfig.kernel_size + 1)

\* C3: with the default configuration a forward call on a (1, 1, 16000)
\* input completes with an output of shape (1, 60, 166).
C3_DefaultForwardShape ==
    (lastFwd.made /\ netAttempt.cfg = DefaultConfig
                  /\ lastFwd.waveforms = <<1, 1, 16000>>) =>
        /\ lastFwd.raised = "none"
        /\ lastFwd.shape = <<1, 60, 166>>

\* C4: a pipeline constructed with a sample rate other than 16000 or with
\* sinc_filter_in_channels other than 1, and a layer constructed with
\* in_channels other than 1, end in an error at construction and no object
\* exists afterwards (so none that forward could be called on).
C4_BadConfigFailsAtConstruction ==
    /\ (netAttempt.made /\ (netAttempt.cfg.sample_rate # 16000
                            \/ netAttempt.cfg.sinc_filter_in_channels # 1)) =>
          (netAttempt.raised \in {"NotImplementedError", "ValueError"}
           /\ ~net.alive)
    /\ \A id \in Ids :
          (attempts[id].made /\ attempts[id].cfg.in_channels # 1) =>
             (attempts[id].raised = "ValueError" /\ ~layers[id].alive)

C4_Witness ==
    /\ netAttempt.made /\ netAttempt.cfg.sample_rate = 8000
    /\ netAttempt.cfg.sinc_filter_in_channels = 1
    /\ netAttempt.raised = "NotImplementedError"
    /\ attempts[1].made /\ attempts[1].cfg.in_channels = 2
    /\ attempts[1].raised = "ValueError"

\* C5: a filter bank whose min_low_hz + min_band_hz is at least
\* sample_rate / 2 is rejected at construction: the constructor raises and
\* no filter bank exists.
C5_NyquistRejected ==
    \A id \in Ids :
        (attempts[id].made
         /\ 2 * (attempts[id].cfg.min_low_hz + attempts[id].cfg.min_band_hz)
              >= attempts[id].cfg.sample_rate) =>
            (attempts[id].raised # "none" /\ ~layers[id].alive)

\* C6: for every filter whose upper edge before the clamp,
\* low + min_band_hz + |band_param|, exceeds sample_rate / 2: high is
\* exactly sample_rate / 2, the divisor 2 * band is not zero, and every
\* coefficient of the filter's kernel is finite.
C6_ClampedKernelFinite ==
    (lastCall.made /\ ~lastCall.hit) =>
        \A i \in 1..Len(lastCall.low_hz) :
            (/\ IsNum(lastCall.low_hz[i]) /\ IsNum(lastCall.band_hz[i])
             /\ 2 * (ReadLayer.min_low_hz + Abs(lastCall.low_hz[i].v)
                     + ReadLayer.min_band_hz + Abs(lastCall.band_hz[i].v))
                  > ReadLayer.sample_rate) =>
                /\ lastCall.high[i] = Num(ReadLayer.sample_rate \div 2)
                /\ lastCall.band[i] # Num(0)
                /\ \A t \in 1..Len(lastCall.band_pass[i]) :
                      IsFinite(lastCall.band_pass[i][t])

\* C7: for all (numeric) parameter values, every kernel `filters` builds
\* is symmetric about its centre tap: tap k equals tap K + 1 - k (floating
\* point ==), for every filter.
C7_KernelSymmetric ==
    (lastCall.made /\ ~lastCall.hit) =>
        \A i \in 1..Len(lastCall.band_pass) :
            (IsNum(lastCall.low_hz[i]) /\ IsNum(lastCall.band_hz[i])) =>
                \A k \in 1..Len(lastCall.band_pass[i]) :
                    FEq(lastCall.band_pass[i][k],
                        lastCall.band_pass[i][Len(lastCall.band_pass[i]) + 1 - k])

LengthFormula(in, kernel, stride) == (in - kernel) \div stride + 1

\* C9: on every accepted configuration and every input length, forward
\* runs the three stages, each stage's output length is the length formula
\* applied for its convolution (stage 1: sinc_filter_length made odd and
\* sinc_filter_stride; stages 2 and 3: conv_filter_length, stride 1) and
\* again for its pooling, and each stage's output is shorter than its input.
C9_StagesShrinkByFormula ==
    lastFwd.made =>
        /\ lastFwd.raised = "none"
        /\ Len(lastFwd.lens) = 3
        /\ \A i \in 1..Len(lastFwd.lens) :
              /\ lastFwd.lens[i].conv =
                    (IF i = 1
                     THEN LengthFormula(lastFwd.lens[i].in,
                            IF netAttempt.cfg.sinc_filter_length % 2 = 0
                            THEN netAttempt.cfg.sinc_filter_length + 1
                            ELSE netAttempt.cfg.sinc_filter_length,
                            netAttempt.cfg.sinc_filter_stride)
                     ELSE LengthFormula(lastFwd.lens[i].in,
                            netAttempt.cfg.conv_filter_length, 1))
              /\ lastFwd.lens[i].pool =
                    LengthFormula(lastFwd.lens[i].conv,
                                  netAttempt.cfg.pool_kernel_size,
                                  netAttempt.cfg.pool_stride)
              /\ lastFwd.lens[i].pool < lastFwd.lens[i].in

\* C10: every forward call applies, in this order and each once: the input
\* normalisation, then for stages 1, 2, 3 the convolution, the max-pool,
\* the normalisation and the leaky rectification; and returns the result.
C10_ForwardAppliesAllSteps ==
    lastFwd.made =>
        /\ lastFwd.raised = "none"
        /\ lastFwd.trace =
            << [op |-> "wav_norm1d", stage |-> 0],
               [op |-> "conv1d", stage |-> 1], [op |-> "pool1d", stage |-> 1],
               [op |-> "norm1d", stage |-> 1], [op |-> "leaky_relu", stage |-> 1],
               [op |-> "conv1d", stage |-> 2], [op |-> "pool1d", stage |-> 2],
               [op |-> "norm1d", stage |-> 2], [op |-> "leaky_relu", stage |-> 2],
               [op |-> "conv1d", stage |-> 3], [op |-> "pool1d", stage |-> 3],
               [op |-> "norm1d", stage |-> 3], [op |-> "leaky_relu", stage |-> 3] >>

=============================================================================
